---- MODULE Spec2Model ----
(***************************************************************************)
(* gravel::dynamic_value: a value-semantic container for one object of a   *)
(* runtime-selected type, with small-buffer storage, heap spill and an     *)
(* erased operations table (clone / move).                                 *)
(*                                                                         *)
(* Memory is modelled by words.  A heap allocation has the address of the  *)
(* object it holds (the object's index in objs, a positive number); the    *)
(* inline buffer of container c lies at BufAddr(c); the vtable of a type   *)
(* lies at VPtr(T), a negative number; 0 is the null pointer.  The first   *)
(* pointer-width bytes of an object are its field head: the vtable pointer *)
(* of a polymorphic type (Base, ChildA, ConcreteChild of the tests), the   *)
(* member m_val of CopyOnly / MoveOnly.                                    *)
(*                                                                         *)
(* The container types of a run (BaseT, attributes, buffer size) are the   *)
(* value of cfg, which no step changes.                                    *)
(***************************************************************************)
EXTENDS Integers, Sequences, FiniteSets, TLC

\* Bounds of the model.
MaxObjs == 3
MaxVal == 2

\* sizeof(void*)
PtrSize == 8

\* The concrete payload types, and the types that are only bases.
TypeSet == {"Base", "ChildA", "CopyOnly", "MoveOnly", "ConcreteChild"}
BaseTypes == TypeSet \cup {"AbstractBase"}

\* unique_function: FunctionWrapper<FuncT> of a function pointer or a small
\* closure, and of a functor too large for the buffer; their base
Wrappers == {"FunctionWrapper", "LargeFunctionWrapper"}
WrapperBase == "FunctionBase"
Vals == 1..MaxVal

Max(a, b) == IF a >= b THEN a ELSE b

\* sizeof(T) of the payload types: Base as in the tests (vtable pointer, tag,
\* value), the child padded as FlexibleSizeChild is, to the size of the
\* larger buffer.
SizeOf(T) == CASE T = "Base" -> 16
               [] T = "ChildA" -> 64
               [] T = "CopyOnly" -> 4
               [] T = "MoveOnly" -> 4
               [] T = "AbstractBase" -> 8
               [] T = "ConcreteChild" -> 16
               [] T = "FunctionBase" -> 8
               [] T = "FunctionWrapper" -> 16
               [] T = "LargeFunctionWrapper" -> 64

\* T has virtual functions: its objects begin with a vtable pointer
Polymorphic(T) ==
    T \in {"Base", "ChildA", "AbstractBase", "ConcreteChild", WrapperBase} \cup Wrappers

\* std::is_abstract<T>
IsAbstract(T) == T \in {"AbstractBase", WrapperBase}

\* Address of T's vtable, the first word of every object of type T.
VPtr(T) == CASE T = "Base" -> -1
             [] T = "ChildA" -> -2
             [] T = "ConcreteChild" -> -3
             [] T = "FunctionWrapper" -> -4
             [] T = "LargeFunctionWrapper" -> -5

VTables == {VPtr(T) : T \in {X \in TypeSet : Polymorphic(X)}}

\* The first pointer-width bytes of an object of type T with value v: the
\* vtable pointer, or for CopyOnly / MoveOnly the member m_val.
FirstWord(T, v) == IF Polymorphic(T) THEN VPtr(T) ELSE v

\* IsBaseOf<B, T>
IsBaseOf(B, T) ==
    \/ B = T
    \/ B = "Base" /\ T = "ChildA"
    \/ B = "AbstractBase" /\ T = "ConcreteChild"
    \/ B = WrapperBase /\ T \in Wrappers

VARIABLES
    cfg,       \* per container its instantiation: BaseT and the Properties
               \* (attributes, SmallBufferSize); fixed for a whole run
    cont,      \* per container: st, m_local, slot (first word of m_buffer),
               \* inl (the object placed in m_buffer), table and tbase (the
               \* SubT and the BaseT of the OperationsTable in m_op_table),
               \* moved (it was the source of a move)
    objs,      \* every payload object ever constructed by a container
    crashed,   \* the program has faulted
    ub,        \* the undefined behaviour that has been executed: "none",
               \* "delete" (of a word that is no live intact allocation),
               \* "read" or "write" (through a pointer to no live object)
    last,      \* the operation that was executed last, its arguments, the
               \* branch it took and the payload constructor it called
    nomem      \* the allocator is exhausted: operator new throws std::bad_alloc

vars == <<cfg, cont, objs, crashed, ub, last, nomem>>

\* enum class Attr
Attr == [None |-> 0, Copyable |-> 1, Movable |-> 2, Default |-> 255]

\* the operators & and | on the underlying integers
RECURSIVE BitAnd(_, _)
BitAnd(x, y) ==
    IF x = 0 \/ y = 0 THEN 0
    ELSE (x % 2) * (y % 2) + 2 * BitAnd(x \div 2, y \div 2)

RECURSIVE BitOr(_, _)
BitOr(x, y) ==
    IF x = 0 THEN y
    ELSE IF y = 0 THEN x
    ELSE Max(x % 2, y % 2) + 2 * BitOr(x \div 2, y \div 2)

\* dynamic_value<B, Properties<a, n>>
Inst(B, a, n) == [BaseT |-> B, attributes |-> a, SmallBufferSize |-> n]

\* The container types of the runs that exercise storage:
\*   1: dynamic_value<Base>                    (default buffer)
\*   2: dynamic_value<Base, BufferSize<64>>
\*   3: dynamic_value<ChildA, BufferSize<32>>
Flexible ==
    <<Inst("Base", Attr.Default, 0), Inst("Base", Attr.Default, 64),
      Inst("ChildA", Attr.Default, 32)>>

\* The container types of the runs that exercise the attributes:
\* containers over ChildA that are copy-only (with a buffer smaller than
\* ChildA), move-only and both;
ByAttribute ==
    <<Inst("ChildA", Attr.Copyable, 32), Inst("ChildA", Attr.Movable, 0),
      Inst("ChildA", Attr.Default, 0)>>
\* dynamic_value<CopyOnly>, dynamic_value<MoveOnly> and
\* dynamic_value<AbstractBase> of the tests, two containers of each.
CopyOnlyValues == [c \in 1..2 |-> Inst("CopyOnly", Attr.Default, 0)]
MoveOnlyValues == [c \in 1..2 |-> Inst("MoveOnly", Attr.Default, 0)]
AbstractValues == [c \in 1..2 |-> Inst("AbstractBase", Attr.Default, 0)]

\* the containers of a run
Conts == DOMAIN cfg

BaseT(c) == cfg[c].BaseT
Configured(c) == cfg[c].SmallBufferSize

default_buffer_size(T) == Max(SizeOf(T) + PtrSize, 4 * PtrSize)

small_buffer_size(c) ==
    IF Configured(c) = 0 THEN default_buffer_size(BaseT(c)) ELSE Configured(c)

\* the static_assert as it would be if it required room for a BaseT
InstantiableIfFitsBase(c) == small_buffer_size(c) >= SizeOf(BaseT(c))

\* static_assert(properties::small_buffer_size >= sizeof(BaseT*)): the
\* class can be instantiated
Instantiable(c) == small_buffer_size(c) >= PtrSize

\* The address of container c and the extent of its footprint (is_inside of
\* the tests): the buffer, the table buffer and the flag.
BufAddr(c) == 1000 * c
Inside(c, a) == a >= BufAddr(c) /\ a < BufAddr(c) + small_buffer_size(c) + 2 * PtrSize

NewObj(T, v, onHeap) ==
    [type |-> T, val |-> v, head |-> FirstWord(T, v), heap |-> onHeap,
     dtor |-> 0, freed |-> 0]

\* An object after its destructor has run: its bytes hold nothing that the
\* program may read, only the numbers of destructor runs and frees remain.
Destroyed(x) ==
    [type |-> "none", val |-> 0, head |-> 0, heap |-> x.heap,
     dtor |-> x.dtor + 1, freed |-> IF x.heap THEN x.freed + 1 ELSE x.freed]

\* A container after its destructor has run.
Gone == [st |-> "dead", m_local |-> FALSE, slot |-> 0, inl |-> 0,
         table |-> "none", tbase |-> "none", moved |-> FALSE]

NoOp == [op |-> "none", dst |-> 0, src |-> 0, branch |-> "none",
         type |-> "none", val |-> 0, ctor |-> "none", overlap |-> FALSE]

\* std::is_copy_constructible<T> / std::is_move_constructible<T>: an abstract
\* class is not constructible, CopyOnly deletes its move constructor and
\* MoveOnly its copy constructor; FunctionWrapper deletes its copy
\* constructor and defines its move constructor
CopyConstructible(T) == T \in {"Base", "ChildA", "CopyOnly", "ConcreteChild"}
MoveConstructible(T) == T \in {"Base", "ChildA", "MoveOnly", "ConcreteChild"} \cup Wrappers

\* default_attributes<T>()
default_attributes(T) ==
    BitOr(IF CopyConstructible(T) THEN Attr.Copyable ELSE Attr.None,
          IF MoveConstructible(T) THEN Attr.Movable ELSE Attr.None)

\* PropertiesT::attributes
Attributes(c) == cfg[c].attributes

\* copyable as it would be if it were resolved from BaseT whatever the
\* attributes say
copyable_from_base(c) == BitAnd(default_attributes(BaseT(c)), Attr.Copyable) # 0

\* DynamicValProperties::copyable / moveable
copyable(c) ==
    BitAnd(IF Attributes(c) = Attr.Default THEN default_attributes(BaseT(c))
           ELSE Attributes(c),
           Attr.Copyable) # 0

moveable(c) ==
    BitAnd(IF Attributes(c) = Attr.Default THEN default_attributes(BaseT(c))
           ELSE Attributes(c),
           Attr.Movable) # 0

op_table_size(c) == IF copyable(c) \/ moveable(c) THEN PtrSize ELSE 0

----------------------------------------------------------------------------
\* Memory

\* a is the address of a heap allocation made so far (live or freed)
IsAlloc(a, o) == a \in 1..Len(o) /\ o[a].heap

\* the object found at address a, 0 when there is none
ObjAt(a, cn, o) ==
    IF IsAlloc(a, o) THEN a
    ELSE IF \E c \in Conts : a = BufAddr(c)
         THEN cn[CHOOSE c \in Conts : a = BufAddr(c)].inl
         ELSE 0

\* an object that may be read: constructed and not yet destroyed
Alive(id, o) == id \in 1..Len(o) /\ o[id].dtor = 0 /\ o[id].freed = 0

\* dynamic_value::get as an address
get(c, cn) == IF cn[c].m_local THEN BufAddr(c) ELSE cn[c].slot

\* An outcome of a step of the code: the containers and objects after it,
\* whether it faulted, and whether it executed undefined behaviour.
\* ctor names the constructor of the payload type that the step called:
\* "Basic" (from arguments), "Copied", "Moved", or "none".
Outcome(cn, o, branch, ctor) ==
    [cn |-> cn, o |-> o, fault |-> FALSE, ub |-> "none", branch |-> branch, ctor |-> ctor]
UBOutcome(cn, o, branch, kind) ==
    [cn |-> cn, o |-> o, fault |-> FALSE, ub |-> kind, branch |-> branch, ctor |-> "none"]
Fault(cn, o, kind) ==
    [cn |-> cn, o |-> o, fault |-> TRUE, ub |-> kind, branch |-> "fault", ctor |-> "none"]
\* operator new has thrown: the exception leaves the operation, which has
\* brought the containers to cn
Thrown(cn, o) ==
    [cn |-> cn, o |-> o, fault |-> FALSE, ub |-> "none", branch |-> "bad_alloc", ctor |-> "none"]

\* The outcome x of the code that runs after destroy() had the outcome r:
\* a fault of destroy() ends the operation.
After(r, x) ==
    IF r.fault THEN r
    ELSE [x EXCEPT !.ub = IF r.ub # "none" THEN r.ub ELSE x.ub]

----------------------------------------------------------------------------
\* destroy as it would be if it handled only the inline object and never
\* deleted the heap pointer
destroy_inline_only(c, cn, o) ==
    IF cn[c].m_local
    THEN {Outcome(cn, [o EXCEPT ![cn[c].inl] = Destroyed(@)], "none", "none")}
    ELSE {Outcome(cn, o, "none", "none")}

\* destroy as it would be if it deleted a heap object but did not run the
\* destructor of an inline one
destroy_heap_only(c, cn, o) ==
    IF cn[c].m_local
    THEN {Outcome(cn, o, "none", "none")}
    ELSE LET val == cn[c].slot
             deleted == [o EXCEPT ![val] = Destroyed(@)]
         IN  IF val = 0 THEN {Outcome(cn, o, "none", "none")}
             ELSE IF IsAlloc(val, o)
             THEN IF o[val].freed = 0 /\ o[val].head = FirstWord(o[val].type, o[val].val)
                  THEN {Outcome(cn, deleted, "none", "none")}
                  ELSE {Fault(cn, o, "delete"), UBOutcome(cn, deleted, "none", "delete")}
             ELSE {Fault(cn, o, "delete"), UBOutcome(cn, o, "none", "delete")}

\* dynamic_value::destroy
destroy(c, cn, o) ==
    IF cn[c].m_local
    THEN IF Alive(cn[c].inl, o)
         THEN {Outcome(cn, [o EXCEPT ![cn[c].inl] = Destroyed(@)], "none", "none")}
         \* a destructor call on an object that was destroyed before
         ELSE {Fault(cn, o, "delete"),
               UBOutcome(cn, [o EXCEPT ![cn[c].inl] = Destroyed(@)], "none", "delete")}
    ELSE LET val == cn[c].slot
             deleted == [o EXCEPT ![val] = Destroyed(@)]
         IN  IF val = 0 THEN {Outcome(cn, o, "none", "none")}
             ELSE IF IsAlloc(val, o)
             THEN IF o[val].freed = 0 /\ o[val].head = FirstWord(o[val].type, o[val].val)
                  THEN {Outcome(cn, deleted, "none", "none")}
                  \* delete of a freed allocation, or a virtual destructor
                  \* call through an overwritten vtable pointer
                  ELSE {Fault(cn, o, "delete"), UBOutcome(cn, deleted, "none", "delete")}
             \* delete of a word that is no allocation
             ELSE {Fault(cn, o, "delete"), UBOutcome(cn, o, "none", "delete")}

\* set_emplace as it would be if it compared sizeof(BaseT), not sizeof(T),
\* with the buffer size
set_emplace_base_size(c, cn, o, T, v) ==
    LET id == Len(o) + 1 IN
    IF SizeOf(BaseT(c)) > small_buffer_size(c)
    THEN Outcome([cn EXCEPT ![c].m_local = FALSE, ![c].slot = id,
                            ![c].table = IF op_table_size(c) > 0 THEN T ELSE @,
                            ![c].tbase = IF op_table_size(c) > 0 THEN BaseT(c) ELSE @,
                            ![c].st = "live", ![c].moved = FALSE],
                 Append(o, NewObj(T, v, TRUE)), "heap", "Basic")
    ELSE Outcome([cn EXCEPT ![c].m_local = TRUE, ![c].inl = id, ![c].slot = FirstWord(T, v),
                            ![c].table = IF op_table_size(c) > 0 THEN T ELSE @,
                            ![c].tbase = IF op_table_size(c) > 0 THEN BaseT(c) ELSE @,
                            ![c].st = "live", ![c].moved = FALSE],
                 Append(o, NewObj(T, v, FALSE)), "inline", "Basic")

\* set_emplace as it would be if its heap branch did not reset m_local
set_emplace_stale_local(c, cn, o, T, v) ==
    LET id == Len(o) + 1 IN
    IF SizeOf(T) > small_buffer_size(c)
    THEN Outcome([cn EXCEPT ![c].slot = id,
                            ![c].table = IF op_table_size(c) > 0 THEN T ELSE @,
                            ![c].tbase = IF op_table_size(c) > 0 THEN BaseT(c) ELSE @,
                            ![c].st = "live", ![c].moved = FALSE],
                 Append(o, NewObj(T, v, TRUE)), "heap", "Basic")
    ELSE Outcome([cn EXCEPT ![c].m_local = TRUE, ![c].inl = id, ![c].slot = FirstWord(T, v),
                            ![c].table = IF op_table_size(c) > 0 THEN T ELSE @,
                            ![c].tbase = IF op_table_size(c) > 0 THEN BaseT(c) ELSE @,
                            ![c].st = "live", ![c].moved = FALSE],
                 Append(o, NewObj(T, v, FALSE)), "inline", "Basic")

\* dynamic_value::set_emplace<T>(args...)
set_emplace(c, cn, o, T, v) ==
    LET id == Len(o) + 1 IN
    IF SizeOf(T) > small_buffer_size(c)
    THEN IF nomem THEN Thrown([cn EXCEPT ![c].m_local = FALSE], o) ELSE
         Outcome([cn EXCEPT ![c].m_local = FALSE, ![c].slot = id,
                            ![c].table = IF op_table_size(c) > 0 THEN T ELSE @,
                            ![c].tbase = IF op_table_size(c) > 0 THEN BaseT(c) ELSE @,
                            ![c].st = "live", ![c].moved = FALSE],
                 Append(o, NewObj(T, v, TRUE)), "heap", "Basic")
    ELSE Outcome([cn EXCEPT ![c].m_local = TRUE, ![c].inl = id, ![c].slot = FirstWord(T, v),
                            ![c].table = IF op_table_size(c) > 0 THEN T ELSE @,
                            ![c].tbase = IF op_table_size(c) > 0 THEN BaseT(c) ELSE @,
                            ![c].st = "live", ![c].moved = FALSE],
                 Append(o, NewObj(T, v, FALSE)), "inline", "Basic")

\* set as it would be if it did not construct the table of T
set_keep_table(c, cn, o, T, v, tag) ==
    LET id == Len(o) + 1 IN
    IF SizeOf(T) > small_buffer_size(c)
    THEN Outcome([cn EXCEPT ![c].m_local = FALSE, ![c].slot = id,
                            ![c].st = "live", ![c].moved = FALSE],
                 Append(o, NewObj(T, v, TRUE)), "heap", tag)
    ELSE Outcome([cn EXCEPT ![c].m_local = TRUE, ![c].inl = id, ![c].slot = FirstWord(T, v),
                            ![c].st = "live", ![c].moved = FALSE],
                 Append(o, NewObj(T, v, FALSE)), "inline", tag)

\* set as it would be if it did not forward its argument and always called
\* the copy constructor
set_always_copy(c, cn, o, T, v, tag) ==
    LET id == Len(o) + 1 IN
    IF SizeOf(T) > small_buffer_size(c)
    THEN Outcome([cn EXCEPT ![c].m_local = FALSE, ![c].slot = id,
                            ![c].table = IF op_table_size(c) > 0 THEN T ELSE @,
                            ![c].tbase = IF op_table_size(c) > 0 THEN BaseT(c) ELSE @,
                            ![c].st = "live", ![c].moved = FALSE],
                 Append(o, NewObj(T, v, TRUE)), "heap", "Copied")
    ELSE Outcome([cn EXCEPT ![c].m_local = TRUE, ![c].inl = id, ![c].slot = FirstWord(T, v),
                            ![c].table = IF op_table_size(c) > 0 THEN T ELSE @,
                            ![c].tbase = IF op_table_size(c) > 0 THEN BaseT(c) ELSE @,
                            ![c].st = "live", ![c].moved = FALSE],
                 Append(o, NewObj(T, v, FALSE)), "inline", "Copied")

\* set as it would be if it stored the object inline when the allocation
\* fails
set_fallback_inline(c, cn, o, T, v, tag) ==
    LET id == Len(o) + 1 IN
    IF SizeOf(T) > small_buffer_size(c) /\ ~nomem
    THEN Outcome([cn EXCEPT ![c].m_local = FALSE, ![c].slot = id,
                            ![c].table = IF op_table_size(c) > 0 THEN T ELSE @,
                            ![c].tbase = IF op_table_size(c) > 0 THEN BaseT(c) ELSE @,
                            ![c].st = "live", ![c].moved = FALSE],
                 Append(o, NewObj(T, v, TRUE)), "heap", tag)
    ELSE Outcome([cn EXCEPT ![c].m_local = TRUE, ![c].inl = id, ![c].slot = FirstWord(T, v),
                            ![c].table = IF op_table_size(c) > 0 THEN T ELSE @,
                            ![c].tbase = IF op_table_size(c) > 0 THEN BaseT(c) ELSE @,
                            ![c].st = "live", ![c].moved = FALSE],
                 Append(o, NewObj(T, v, FALSE)), "inline", tag)

\* dynamic_value::set<T>(T&& value): tag is "Copied" for an lvalue and
\* "Moved" for an rvalue
set(c, cn, o, T, v, tag) ==
    LET id == Len(o) + 1 IN
    IF SizeOf(T) > small_buffer_size(c)
    THEN IF nomem THEN Thrown([cn EXCEPT ![c].m_local = FALSE], o) ELSE
         Outcome([cn EXCEPT ![c].m_local = FALSE, ![c].slot = id,
                            ![c].table = IF op_table_size(c) > 0 THEN T ELSE @,
                            ![c].tbase = IF op_table_size(c) > 0 THEN BaseT(c) ELSE @,
                            ![c].st = "live", ![c].moved = FALSE],
                 Append(o, NewObj(T, v, TRUE)), "heap", tag)
    ELSE Outcome([cn EXCEPT ![c].m_local = TRUE, ![c].inl = id, ![c].slot = FirstWord(T, v),
                            ![c].table = IF op_table_size(c) > 0 THEN T ELSE @,
                            ![c].tbase = IF op_table_size(c) > 0 THEN BaseT(c) ELSE @,
                            ![c].st = "live", ![c].moved = FALSE],
                 Append(o, NewObj(T, v, FALSE)), "inline", tag)

\* What reading *src yields: the value of the object there, or, when src
\* does not point to a live object, a fault or any value.
ReadSrc(src, cn, o) ==
    LET id == ObjAt(src, cn, o) IN
    IF Alive(id, o) THEN {[fault |-> FALSE, ub |-> "none", val |-> o[id].val]}
    ELSE {[fault |-> TRUE, ub |-> "read", val |-> 0]}
         \cup {[fault |-> FALSE, ub |-> "read", val |-> v] : v \in Vals}

\* get_op_table() of a container whose m_op_table holds no table (it is
\* zero-sized, or zeroed): the virtual call goes through no vtable
NoTable(d, cn, o) ==
    {Fault(cn, o, "read"),
     UBOutcome([cn EXCEPT ![d].st = "live", ![d].moved = FALSE], o, "none", "read")}

\* clone as it would be if its heap branch copied the pointer of a
\* heap-stored source instead of allocating a copy
clone_shallow(d, s, cn, o) ==
    LET SubT == cn[s].table
        TableBase == cn[s].tbase
        src == get(s, cn)
        id == Len(o) + 1
    IN  {IF r.fault THEN Fault(cn, o, "read")
         ELSE IF SizeOf(SubT) > small_buffer_size(d)
         THEN IF ~cn[s].m_local
              THEN [Outcome([cn EXCEPT ![d].m_local = FALSE, ![d].slot = src,
                                       ![d].table = SubT,
                                       ![d].tbase = TableBase,
                                       ![d].st = "live", ![d].moved = FALSE],
                            o, "heap", "none")
                    EXCEPT !.ub = r.ub]
              ELSE [Outcome([cn EXCEPT ![d].m_local = FALSE, ![d].slot = id,
                                       ![d].table = SubT,
                                       ![d].tbase = TableBase,
                                       ![d].st = "live", ![d].moved = FALSE],
                            Append(o, NewObj(SubT, r.val, TRUE)), "heap", "Copied")
                    EXCEPT !.ub = r.ub]
         ELSE [Outcome([cn EXCEPT ![d].m_local = TRUE, ![d].inl = id,
                                  ![d].slot = FirstWord(SubT, r.val), ![d].table = SubT,
                                  ![d].tbase = TableBase,
                                  ![d].st = "live", ![d].moved = FALSE],
                       Append(o, NewObj(SubT, r.val, FALSE)), "inline", "Copied")
               EXCEPT !.ub = r.ub]
         : r \in ReadSrc(src, cn, o)}

\* OperationsTable<BaseT, SubT>::clone, called on the table of s with
\* d's buffers and src = &s.get()
clone(d, s, cn, o) ==
    LET SubT == cn[s].table
        TableBase == cn[s].tbase
        src == get(s, cn)
        id == Len(o) + 1
    IN  IF SubT = "none" THEN NoTable(d, cn, o)
        \* if constexpr (std::is_copy_constructible<BaseT>::value)
        ELSE IF ~CopyConstructible(TableBase)
        THEN {Outcome([cn EXCEPT ![d].st = "live", ![d].moved = FALSE], o, "none", "none")}
        ELSE
        IF SizeOf(SubT) > small_buffer_size(d) /\ nomem
        THEN {Thrown([cn EXCEPT ![d].m_local = FALSE], o)}
        ELSE
        {IF r.fault THEN Fault(cn, o, "read")
         ELSE IF SizeOf(SubT) > small_buffer_size(d)
         THEN [Outcome([cn EXCEPT ![d].m_local = FALSE, ![d].slot = id,
                                  ![d].table = SubT,
                                  ![d].tbase = TableBase,
                                  ![d].st = "live", ![d].moved = FALSE],
                       Append(o, NewObj(SubT, r.val, TRUE)), "heap", "Copied")
               EXCEPT !.ub = r.ub]
         ELSE [Outcome([cn EXCEPT ![d].m_local = TRUE, ![d].inl = id,
                                  ![d].slot = FirstWord(SubT, r.val), ![d].table = SubT,
                                  ![d].tbase = TableBase,
                                  ![d].st = "live", ![d].moved = FALSE],
                       Append(o, NewObj(SubT, r.val, FALSE)), "inline", "Copied")
               EXCEPT !.ub = r.ub]
         : r \in ReadSrc(src, cn, o)}

\* move as it would be if it had no pointer-steal branch and move-constructed
\* a new heap object whenever SubT does not fit
move_no_steal(d, s, cn, o) ==
    LET SubT == cn[s].table
        TableBase == cn[s].tbase
        src == get(s, cn)
        id == Len(o) + 1
        cm == [cn EXCEPT ![s].moved = TRUE]
    IN  {IF r.fault THEN Fault(cn, o, "read")
         ELSE IF SizeOf(SubT) > small_buffer_size(d)
         THEN [Outcome([cm EXCEPT ![d].m_local = FALSE, ![d].slot = id,
                                  ![d].table = SubT, ![d].tbase = TableBase,
                                  ![d].st = "live", ![d].moved = FALSE],
                       Append(o, NewObj(SubT, r.val, TRUE)), "heap", "Moved")
               EXCEPT !.ub = r.ub]
         ELSE [Outcome([cm EXCEPT ![d].m_local = TRUE, ![d].inl = id,
                                  ![d].slot = FirstWord(SubT, r.val),
                                  ![d].table = SubT, ![d].tbase = TableBase,
                                  ![d].st = "live", ![d].moved = FALSE],
                       Append(o, NewObj(SubT, r.val, FALSE)), "inline", "Moved")
               EXCEPT !.ub = r.ub]
         : r \in ReadSrc(src, cn, o)}

\* OperationsTable<BaseT, SubT>::move, called on the table of s with d's
\* buffers, src = &s.get() and src_local = s.m_local
move(d, s, cn, o) ==
    LET SubT == cn[s].table
        TableBase == cn[s].tbase
        src == get(s, cn)
        src_local == cn[s].m_local
        id == Len(o) + 1
        cm == [cn EXCEPT ![s].moved = TRUE]
    IN  IF SubT = "none" THEN NoTable(d, cn, o)
        \* if constexpr (std::is_move_constructible<BaseT>::value)
        ELSE IF ~MoveConstructible(TableBase)
        THEN {Outcome([cm EXCEPT ![d].st = "live", ![d].moved = FALSE], o, "none", "none")}
        ELSE
        IF SizeOf(SubT) > small_buffer_size(d)
        THEN IF ~src_local
             THEN \* memcpy(small_buffer.data(), casted_source, sizeof(SubT*));
                  \* memset(src, 0, sizeof(src)): both act on the bytes that
                  \* src points to, the first word of the source object
                  IF IsAlloc(src, o)
                  THEN {[Outcome([cm EXCEPT ![d].m_local = FALSE,
                                            ![d].slot = o[src].head,
                                            ![d].table = SubT,
                                            ![d].tbase = TableBase,
                                            ![d].st = "live", ![d].moved = FALSE],
                                 [o EXCEPT ![src].head = 0,
                                           ![src].val = IF Polymorphic(SubT) THEN @ ELSE 0],
                                 "steal", "none")
                         EXCEPT !.ub = IF Alive(src, o) THEN "none" ELSE "read"]}
                  ELSE {Fault(cn, o, "write")}
                       \cup {UBOutcome([cm EXCEPT ![d].m_local = FALSE, ![d].slot = w,
                                                  ![d].table = SubT,
                                                  ![d].tbase = TableBase,
                                                  ![d].st = "live", ![d].moved = FALSE],
                                       o, "steal", "write") : w \in VTables \cup {0}}
             ELSE IF nomem THEN {Thrown([cn EXCEPT ![d].m_local = FALSE], o)}
             ELSE {IF r.fault THEN Fault(cn, o, "read")
                   ELSE [Outcome([cm EXCEPT ![d].m_local = FALSE, ![d].slot = id,
                                            ![d].table = SubT,
                                            ![d].tbase = TableBase,
                                            ![d].st = "live", ![d].moved = FALSE],
                                 Append(o, NewObj(SubT, r.val, TRUE)), "heap", "Moved")
                         EXCEPT !.ub = r.ub]
                   : r \in ReadSrc(src, cn, o)}
        ELSE {IF r.fault THEN Fault(cn, o, "read")
              ELSE [Outcome([cm EXCEPT ![d].m_local = TRUE, ![d].inl = id,
                                       ![d].slot = FirstWord(SubT, r.val), ![d].table = SubT,
                                       ![d].tbase = TableBase,
                                       ![d].st = "live", ![d].moved = FALSE],
                            Append(o, NewObj(SubT, r.val, FALSE)), "inline", "Moved")
                    EXCEPT !.ub = r.ub]
              : r \in ReadSrc(src, cn, o)}

\* do_clone as it would be if it called the table's move
do_clone_by_move(d, s, cn, o) == move(d, s, cn, o)

\* do_move as it would be if it destroyed the source's object once it had
\* been moved from
do_move_destroying(d, s, cn, o) ==
    LET x == ObjAt(get(s, cn), cn, o) IN
    {IF r.fault \/ x = 0 THEN r ELSE [r EXCEPT !.o = [r.o EXCEPT ![x] = Destroyed(@)]]
     : r \in move(d, s, cn, o)}

\* dynamic_value::do_clone / do_move: the source's stored table does the work
do_clone(d, s, cn, o) == clone(d, s, cn, o)
do_move(d, s, cn, o) == move(d, s, cn, o)

InitState ==
    /\ cont = [c \in Conts |-> [st |-> "unborn", m_local |-> FALSE, slot |-> 0,
                                inl |-> 0, table |-> "none", tbase |-> "none",
                                moved |-> FALSE]]
    /\ objs = <<>>
    /\ crashed = FALSE
    /\ ub = "none"
    /\ last = NoOp
    /\ nomem = FALSE

Init == cfg = Flexible /\ InitState

----------------------------------------------------------------------------
\* The public operations.  Each is one step: it ends with the state the
\* code leaves, or with a fault.

Rec(op, d, s, T, v) ==
    [op |-> op, dst |-> d, src |-> s, branch |-> "none", type |-> T, val |-> v,
     ctor |-> "none", overlap |-> FALSE]

\* The record of an operation that replaces the object of c: overlap tells
\* whether the object held so far is still alive in the state r.o that
\* destroy() left, in which the new object is constructed.
Replacing(c, r, rec) ==
    [rec EXCEPT !.overlap = Alive(ObjAt(get(c, cont), cont, objs), r.o)]

Commit(r, rec) ==
    IF r.fault
    THEN /\ crashed' = TRUE
         /\ ub' = r.ub
         /\ last' = [rec EXCEPT !.branch = "fault"]
         /\ UNCHANGED <<cfg, cont, objs, nomem>>
    ELSE /\ cont' = r.cn
         /\ objs' = r.o
         /\ ub' = r.ub
         /\ last' = [rec EXCEPT !.branch = r.branch, !.ctor = r.ctor]
         /\ UNCHANGED <<cfg, crashed, nomem>>

Unborn(c) == cont[c].st = "unborn"
Live(c) == cont[c].st = "live"
Room == Len(objs) < MaxObjs

\* a container that the caller may read, copy from or move from
Usable(c) == Live(c) /\ ~cont[c].moved

\* The requires-clauses of the assignment operators, as the tests' concepts
\* ConceptCopyAssignable / ConceptMoveAssignable see them.  Copy assignment
\* (from a value, from a container of the same or of another type) requires
\* properties::copyable.  Move assignment from a value and the cross-type
\* move assignment template require moveable || copyable; the same-type
\* operator=(dynamic_value&&) requires "coyable || moveable", of which the
\* first names no member and is never satisfied, and an rvalue of the same
\* type is then taken by the cross-type template.
CopyAssignable(c) == copyable(c)

\* move assignment as it would be if only the same-type operator took rvalue
\* containers and values
MoveAssignableIfMoveable(c) == moveable(c)

MoveAssignable(c) == moveable(c) \/ (moveable(c) \/ copyable(c))

\* dynamic_value(const T& other)
ConstructCopyValue(c, T, v) ==
    /\ ~crashed /\ ub = "none" /\ Room /\ Unborn(c) /\ Instantiable(c)
    /\ IsBaseOf(BaseT(c), T) /\ copyable(c) /\ CopyConstructible(T)
    /\ Commit(set(c, cont, objs, T, v, "Copied"), Rec("ctor_value_copy", c, 0, T, v))

\* dynamic_value(T&& other)
ConstructMoveValue(c, T, v) ==
    /\ ~crashed /\ ub = "none" /\ Room /\ Unborn(c) /\ Instantiable(c)
    /\ IsBaseOf(BaseT(c), T) /\ (moveable(c) \/ copyable(c))
    /\ IF moveable(c) THEN MoveConstructible(T) ELSE CopyConstructible(T)
    /\ Commit(IF moveable(c) THEN set(c, cont, objs, T, v, "Moved")
              ELSE set(c, cont, objs, T, v, "Copied"),
              Rec("ctor_value_move", c, 0, T, v))

\* make_emplaced<T>(args...) / make_dynamic_value
MakeEmplaced(c, T, v) ==
    /\ ~crashed /\ ub = "none" /\ Room /\ Unborn(c) /\ Instantiable(c)
    /\ IsBaseOf(BaseT(c), T)
    /\ Commit(set_emplace(c, cont, objs, T, v), Rec("make_emplaced", c, 0, T, v))

\* dynamic_value(const dynamic_value<OtherBaseT, OtherPropertiesT>& other)
ConstructCopy(d, s) ==
    /\ ~crashed /\ ub = "none" /\ Room /\ Unborn(d) /\ Instantiable(d) /\ Usable(s) /\ d # s
    /\ IsBaseOf(BaseT(d), BaseT(s)) /\ copyable(d)
    /\ \E r \in do_clone(d, s, cont, objs) :
          Commit(r, Rec("ctor_copy", d, s, "none", 0))

\* dynamic_value(dynamic_value<OtherBaseT, OtherPropertiesT>&& other)
ConstructMove(d, s) ==
    /\ ~crashed /\ ub = "none" /\ Room /\ Unborn(d) /\ Instantiable(d) /\ Usable(s) /\ d # s
    /\ IsBaseOf(BaseT(d), BaseT(s)) /\ (moveable(d) \/ copyable(d))
    /\ \E r \in (IF moveable(d) THEN do_move(d, s, cont, objs)
                 ELSE do_clone(d, s, cont, objs)) :
          Commit(r, Rec("ctor_move", d, s, "none", 0))

\* emplace<T>(args...)
Emplace(c, T, v) ==
    /\ ~crashed /\ ub = "none" /\ Room /\ Live(c)
    /\ IsBaseOf(BaseT(c), T)
    /\ \E r \in destroy(c, cont, objs) :
          Commit(After(r, set_emplace(c, r.cn, r.o, T, v)),
                 Replacing(c, r, Rec("emplace", c, 0, T, v)))

\* operator=(const T& other)
AssignCopyValue(c, T, v) ==
    /\ ~crashed /\ ub = "none" /\ Room /\ Live(c)
    /\ IsBaseOf(BaseT(c), T) /\ CopyAssignable(c) /\ CopyConstructible(T)
    /\ \E r \in destroy(c, cont, objs) :
          Commit(After(r, set(c, r.cn, r.o, T, v, "Copied")),
                 Replacing(c, r, Rec("assign_value_copy", c, 0, T, v)))

\* operator=(T&& other)
AssignMoveValue(c, T, v) ==
    /\ ~crashed /\ ub = "none" /\ Room /\ Live(c)
    /\ IsBaseOf(BaseT(c), T) /\ MoveAssignable(c)
    /\ IF moveable(c) THEN MoveConstructible(T) ELSE CopyConstructible(T)
    /\ \E r \in destroy(c, cont, objs) :
          Commit(After(r, IF moveable(c) THEN set(c, r.cn, r.o, T, v, "Moved")
                          ELSE set(c, r.cn, r.o, T, v, "Copied")),
                 Replacing(c, r, Rec("assign_value_move", c, 0, T, v)))

\* operator=(const dynamic_value<OtherBaseT, OtherPropertiesT>& other)
AssignCopy(d, s) ==
    /\ ~crashed /\ ub = "none" /\ Room /\ Live(d) /\ Usable(s) /\ d # s
    /\ IsBaseOf(BaseT(d), BaseT(s)) /\ CopyAssignable(d)
    /\ \E r \in destroy(d, cont, objs) :
          \E x \in do_clone(d, s, r.cn, r.o) :
             Commit(After(r, x), Replacing(d, r, Rec("assign_copy", d, s, "none", 0)))

\* operator=(dynamic_value&&) of a moveable container, which takes an rvalue
\* of the container's own type, is noexcept: an exception that would leave
\* it ends the program
Noexcept(d, s, x) ==
    IF cfg[d] = cfg[s] /\ moveable(d) /\ x.branch = "bad_alloc"
    THEN Fault(cont, objs, "none") ELSE x

\* operator=(dynamic_value<OtherBaseT, OtherPropertiesT>&& other)
AssignMove(d, s) ==
    /\ ~crashed /\ ub = "none" /\ Room /\ Live(d) /\ Usable(s) /\ d # s
    /\ IsBaseOf(BaseT(d), BaseT(s)) /\ MoveAssignable(d)
    /\ \E r \in destroy(d, cont, objs) :
          \E x \in (IF moveable(d) THEN do_move(d, s, r.cn, r.o)
                    ELSE do_clone(d, s, r.cn, r.o)) :
             Commit(After(r, Noexcept(d, s, x)),
                    Replacing(d, r, Rec("assign_move", d, s, "none", 0)))

\* ~dynamic_value()
Destroy(c) ==
    /\ ~crashed /\ ub = "none" /\ Live(c)
    /\ \E r \in destroy(c, cont, objs) :
          Commit([r EXCEPT !.cn = [r.cn EXCEPT ![c] = Gone]],
                 Rec("dtor", c, 0, "none", 0))

\* a write to the held object through get(): dyn_val->m_val = v
Mutate(c, v) ==
    /\ ~crashed /\ ub = "none" /\ Usable(c)
    /\ LET id == ObjAt(get(c, cont), cont, objs) IN
       \E r \in (IF Alive(id, objs)
                 THEN {Outcome(cont, [objs EXCEPT ![id].val = v,
                                                  ![id].head = FirstWord(objs[id].type, v)],
                               "none", "none")}
                 ELSE {Fault(cont, objs, "write"),
                       UBOutcome(cont, objs, "none", "write")}) :
          Commit(r, Rec("mutate", c, 0, "none", v))

Next ==
    \/ \E c \in Conts, T \in TypeSet, v \in Vals : ConstructCopyValue(c, T, v)
    \/ \E c \in Conts, T \in TypeSet, v \in Vals : ConstructMoveValue(c, T, v)
    \/ \E c \in Conts, T \in TypeSet, v \in Vals : MakeEmplaced(c, T, v)
    \/ \E d \in Conts, s \in Conts : ConstructCopy(d, s)
    \/ \E d \in Conts, s \in Conts : ConstructMove(d, s)
    \/ \E c \in Conts, T \in TypeSet, v \in Vals : Emplace(c, T, v)
    \/ \E c \in Conts, T \in TypeSet, v \in Vals : AssignCopyValue(c, T, v)
    \/ \E c \in Conts, T \in TypeSet, v \in Vals : AssignMoveValue(c, T, v)
    \/ \E d \in Conts, s \in Conts : AssignCopy(d, s)
    \/ \E d \in Conts, s \in Conts : AssignMove(d, s)
    \/ \E c \in Conts : Destroy(c)
    \/ \E c \in Conts, v \in Vals : Mutate(c, v)

Spec == Init /\ [][Next]_vars

\* The same operations on containers that differ in their attributes.
InitAttr ==
    /\ cfg \in {ByAttribute, CopyOnlyValues, MoveOnlyValues, AbstractValues}
    /\ InitState

SpecAttr == InitAttr /\ [][Next]_vars

\* Policy resolution: every instantiation dynamic_value<B, Properties<a, n>>
\* over the base types, attribute sets and sizes below, and what can be
\* constructed of it from a value.
AttrSets == {Attr.None, Attr.Copyable, Attr.Movable,
             BitOr(Attr.Copyable, Attr.Movable), Attr.Default}
Sizes == {0, 4, 8, 16, 64}

InitProps ==
    /\ \E B \in BaseTypes, a \in AttrSets, n \in Sizes :
          cfg = [c \in {1} |-> Inst(B, a, n)]
    /\ InitState

NextProps ==
    \/ \E T \in TypeSet, v \in Vals : ConstructCopyValue(1, T, v)
    \/ \E T \in TypeSet, v \in Vals : ConstructMoveValue(1, T, v)
    \/ \E T \in TypeSet, v \in Vals : MakeEmplaced(1, T, v)
    \/ Destroy(1)

SpecProps == InitProps /\ [][NextProps]_vars

\* The gates of the operations table: containers over an abstract base, which
\* is neither copy- nor move-constructible, with attributes Default (neither
\* copyable nor moveable) and with both attributes given explicitly, once
\* with a buffer of one pointer and once with the default buffer.
Gated ==
    <<Inst("AbstractBase", Attr.Default, 0),
      Inst("AbstractBase", BitOr(Attr.Copyable, Attr.Movable), 8),
      Inst("AbstractBase", BitOr(Attr.Copyable, Attr.Movable), 0)>>

InitGate == cfg = Gated /\ InitState

SpecGate == InitGate /\ [][Next]_vars

\* unique_function<RetT(ArgT...)>: each container is the member m_function
\* of one unique_function, a dynamic_value<FunctionBase,
\* Properties<Attr::Movable>>; the value of a wrapper stands for the callable
\* it wraps and the state that callable has captured.
Functions == [c \in 1..2 |-> Inst(WrapperBase, Attr.Movable, 0)]

\* unique_function::operator(): (*m_function)(args...), a virtual call on
\* the object that get() refers to; the step records which callable ran
Invoke(c) ==
    /\ ~crashed /\ ub = "none" /\ Usable(c)
    /\ LET id == ObjAt(get(c, cont), cont, objs) IN
       \E r \in (IF Alive(id, objs) /\ objs[id].head = FirstWord(objs[id].type, objs[id].val)
                 THEN {[out |-> Outcome(cont, objs, "none", "none"),
                        type |-> objs[id].type, val |-> objs[id].val]}
                 ELSE {[out |-> Fault(cont, objs, "read"), type |-> "none", val |-> 0]}
                      \cup {[out |-> UBOutcome(cont, objs, "none", "read"),
                             type |-> F, val |-> v] : F \in Wrappers, v \in Vals}) :
          Commit(r.out, Rec("invoke", c, 0, r.type, r.val))

InitFn == cfg = Functions /\ InitState

\* unique_function(FuncT&&), unique_function(unique_function&&),
\* operator=(unique_function&&), operator=(FuncT&&), operator() and the
\* destructor
NextFn ==
    \/ \E c \in Conts, F \in Wrappers, v \in Vals : ConstructMoveValue(c, F, v)
    \/ \E d \in Conts, s \in Conts : ConstructMove(d, s)
    \/ \E d \in Conts, s \in Conts : AssignMove(d, s)
    \/ \E c \in Conts, F \in Wrappers, v \in Vals : Emplace(c, F, v)
    \/ \E c \in Conts : Invoke(c)
    \/ \E c \in Conts : Destroy(c)

SpecFn == InitFn /\ [][NextFn]_vars

\* Self-assignment: the container assignments with the container itself as
\* source, on dynamic_value<Base> and dynamic_value<ChildA, BufferSize<32>>.
Narrow == <<Inst("Base", Attr.Default, 0), Inst("ChildA", Attr.Default, 32)>>

\* x = x as it would be if operator= returned at once when &other == this
SelfAssignCopyChecked(c) ==
    /\ ~crashed /\ ub = "none" /\ Room /\ Usable(c) /\ CopyAssignable(c)
    /\ last' = Rec("assign_copy", c, c, "none", 0)
    /\ UNCHANGED <<cfg, cont, objs, crashed, ub, nomem>>

\* operator=(const dynamic_value& other) with &other == this
SelfAssignCopy(c) ==
    /\ ~crashed /\ ub = "none" /\ Room /\ Usable(c) /\ CopyAssignable(c)
    /\ \E r \in destroy(c, cont, objs) :
          \E x \in do_clone(c, c, r.cn, r.o) :
             Commit(After(r, x), Replacing(c, r, Rec("assign_copy", c, c, "none", 0)))

\* operator=(dynamic_value&& other) with &other == this
SelfAssignMove(c) ==
    /\ ~crashed /\ ub = "none" /\ Room /\ Usable(c) /\ MoveAssignable(c)
    /\ \E r \in destroy(c, cont, objs) :
          \E x \in (IF moveable(c) THEN do_move(c, c, r.cn, r.o)
                    ELSE do_clone(c, c, r.cn, r.o)) :
             Commit(After(r, Noexcept(c, c, x)),
                    Replacing(c, r, Rec("assign_move", c, c, "none", 0)))

InitSelf == cfg = Narrow /\ InitState

NextSelf ==
    \/ Next
    \/ \E c \in Conts : SelfAssignCopy(c)
    \/ \E c \in Conts : SelfAssignMove(c)

SpecSelf == InitSelf /\ [][NextSelf]_vars

\* Resource exhaustion: the same operations with an allocator that may run
\* out of memory, on two containers over Base of which one holds a ChildA
\* inline and the other on the heap.
Spill == <<Inst("Base", Attr.Default, 64), Inst("Base", Attr.Default, 0)>>

\* from now on operator new throws
Exhaust ==
    /\ ~crashed /\ ub = "none" /\ ~nomem
    /\ nomem' = TRUE
    /\ last' = Rec("exhaust", 0, 0, "none", 0)
    /\ UNCHANGED <<cfg, cont, objs, crashed, ub>>

InitAlloc == cfg = Spill /\ InitState

NextAlloc == Next \/ Exhaust

SpecAlloc == InitAlloc /\ [][NextAlloc]_vars

TypeOK ==
    /\ \A c \in Conts : /\ cfg[c].BaseT \in BaseTypes \cup {WrapperBase}
                        /\ cfg[c].attributes \in AttrSets
                        /\ cfg[c].SmallBufferSize \in Nat
    /\ DOMAIN cont = Conts
    /\ crashed \in BOOLEAN
    /\ ub \in {"none", "delete", "read", "write"}
    /\ nomem \in BOOLEAN
    /\ Len(objs) <= MaxObjs
    /\ \A c \in Conts : cont[c].st \in {"unborn", "live", "dead"}

----------------------------------------------------------------------------
\* Vocabulary of the properties

\* the object that c.get() refers to, 0 when there is none
HeldIn(c, cn, o) == ObjAt(get(c, cn), cn, o)
Held(c) == HeldIn(c, cont, objs)

\* c holds a valid object: in its buffer when m_local, else its pointer slot
\* holds a non-null pointer to a live, intact heap allocation; the object's
\* type is BaseT or derives from it
ValidIn(c, cn, o) ==
    LET id == HeldIn(c, cn, o) IN
    /\ cn[c].st = "live"
    /\ Alive(id, o)
    /\ o[id].head = FirstWord(o[id].type, o[id].val)
    /\ IsBaseOf(BaseT(c), o[id].type)
    /\ IF cn[c].m_local THEN ~o[id].heap /\ id = cn[c].inl
       ELSE o[id].heap /\ cn[c].slot = id /\ cn[c].slot # 0
Valid(c) == ValidIn(c, cont, objs)

CtorOps == {"ctor_value_copy", "ctor_value_move", "make_emplaced", "ctor_copy", "ctor_move"}
ValueOps == {"ctor_value_copy", "ctor_value_move", "make_emplaced",
             "emplace", "assign_value_copy", "assign_value_move"}
CopyOps == {"ctor_copy", "assign_copy"}
MoveOps == {"ctor_move", "assign_move"}
Completed == last.branch # "fault"

\* the live containers whose pointer slot holds address a
Owners(a, cn) == {c \in Conts : cn[c].st = "live" /\ ~cn[c].m_local /\ cn[c].slot = a}

\* The step is a completed move of s into d in which the source is
\* heap-stored and its object does not fit d's buffer.
StealStep(d, s) ==
    /\ last'.op \in MoveOps /\ last'.dst = d /\ last'.src = s
    /\ last'.branch # "fault"
    /\ Valid(s) /\ ~cont[s].m_local
    /\ SizeOf(objs[Held(s)].type) > small_buffer_size(d)

----------------------------------------------------------------------------
\* C1: after any public constructor completes, the container holds exactly
\* one valid object of a type that is BaseT or derives from it, inline when
\* m_local and else behind a non-null pointer to a live heap allocation.
C1_ConstructorEstablishesObject ==
    \A c \in Conts :
        (last.op \in CtorOps /\ last.dst = c /\ Completed) => Valid(c)

\* C2: every payload object is destroyed exactly once: no destructor runs
\* twice, no allocation is freed twice, no delete is applied to anything but
\* a live allocation, and once all containers are destroyed no object is
\* left undestroyed.
C2_DestroyedExactlyOnce ==
    /\ ub # "delete"
    /\ \A i \in 1..Len(objs) : objs[i].dtor <= 1 /\ objs[i].freed <= 1
    /\ (~crashed /\ \A c \in Conts : cont[c].st # "live")
          => \A i \in 1..Len(objs) :
                objs[i].dtor = 1 /\ (objs[i].heap => objs[i].freed = 1)

\* C3: pointer-steal: moving a heap-stored source into a destination whose
\* buffer is smaller than sizeof(T) constructs no object and leaves in the
\* destination's slot the address the source's slot held, with m_local false.
C3_PointerSteal ==
    [][\A d \in Conts, s \in Conts :
          StealStep(d, s) =>
             /\ Len(objs') = Len(objs)
             /\ cont'[d].slot = cont[s].slot
             /\ ~cont'[d].m_local]_vars

\* C4: in the pointer-steal branch the source's slot is zeroed in the step
\* that fills the destination's slot and the stolen object is not modified:
\* after the step exactly the destination owns the allocation.
C4_StealInvalidatesSource ==
    [][\A d \in Conts, s \in Conts :
          StealStep(d, s) =>
             /\ cont'[s].slot = 0
             /\ objs'[cont[s].slot] = objs[cont[s].slot]
             /\ Owners(cont[s].slot, cont') = {d}]_vars

C6_MovedFromIsSafe ==
    [][\A c \in Conts :
          ( /\ cont[c].st = "live" /\ cont[c].moved
            /\ last'.dst = c
            /\ \/ last'.op \in {"dtor", "emplace", "assign_value_copy", "assign_value_move"}
               \/ /\ last'.op \in {"assign_copy", "assign_move"}
                  /\ \E s \in Conts : last'.src = s /\ Valid(s) )
          => /\ ub' = "none" /\ ~crashed'
             /\ \A i \in 1..Len(objs) : objs'[i].dtor <= 1 /\ objs'[i].freed <= 1
             /\ \A e \in Conts \ {c} :
                   (Valid(e) /\ last'.src # e) => objs'[Held(e)] = objs[Held(e)]
             /\ last'.op # "dtor" => ValidIn(c, cont', objs')]_vars

\* C7: placement law: the object established in a container is stored
\* inline, at an address inside the container, if sizeof(T) <= the buffer
\* size, and behind the pointer slot, at an address outside it, otherwise.
EstablishedType(c) == IF Valid(c) THEN objs[Held(c)].type ELSE cont[c].table

CopyIsEqualAndDisjoint ==
    \A d \in Conts, s \in Conts :
        (last.op \in CopyOps /\ last.dst = d /\ last.src = s /\ Completed /\ ub = "none")
           => /\ Valid(d) /\ Valid(s)
              /\ Held(d) # Held(s) /\ get(d, cont) # get(s, cont)
              /\ objs[Held(d)].val = objs[Held(s)].val
              /\ objs[Held(d)].type = objs[Held(s)].type

OthersUnchanged ==
    \A c \in Conts :
        ( /\ last'.op \in {"mutate", "dtor", "emplace", "assign_value_copy",
                           "assign_value_move", "assign_copy"}
          /\ last'.dst # c /\ Valid(c) )
        => cont'[c] = cont[c] /\ objs'[Held(c)] = objs[Held(c)]

C8_CopyIndependence == []CopyIsEqualAndDisjoint /\ [][OthersUnchanged]_vars

C8_Witness ==
    \E d \in Conts, s \in Conts :
        /\ last.op = "mutate" /\ last.dst = s /\ d # s
        /\ Valid(d) /\ Valid(s)
        /\ objs[Held(d)].heap /\ objs[Held(s)].heap
        /\ objs[Held(d)].type = objs[Held(s)].type
        /\ objs[Held(d)].val # objs[Held(s)].val

\* C9: the operations table of a container is the one of the concrete type
\* of the object it holds; a value assigned or emplaced as T' brings T's
\* table, and a copy or move made from a container constructs an object of
\* the type of that container's table.
C9_TableMatchesObject ==
    /\ \A c \in Conts : Valid(c) => cont[c].table = objs[Held(c)].type
    /\ \A c \in Conts :
          (last.op \in ValueOps /\ last.dst = c /\ Completed)
             => cont[c].table = last.type /\ Valid(c) /\ objs[Held(c)].type = last.type
    /\ \A d \in Conts, s \in Conts :
          (last.op \in CopyOps \cup MoveOps /\ last.dst = d /\ last.src = s /\ Completed)
             => /\ cont[d].table = cont[s].table
                /\ Valid(d) => objs[Held(d)].type = cont[s].table

\* a container over Base that first held a Base was assigned a ChildA and
\* then copied: the copy holds a ChildA
C9_Witness ==
    \E d \in Conts, s \in Conts :
        /\ last.op \in CopyOps /\ last.dst = d /\ last.src = s
        /\ BaseT(s) = "Base" /\ cont[s].inl # 0 /\ ~cont[s].m_local
        /\ Valid(s) /\ Valid(d)
        /\ objs[Held(s)].type = "ChildA" /\ objs[Held(d)].type = "ChildA"
        /\ cont[d].table = "ChildA"

\* C10: after emplace<T>(args...) on a container holding any previous value,
\* and in the value returned by make_emplaced<T>(args...), dereferencing
\* yields an object equal to T(args...) whose dynamic type is T.
C10_EmplaceYieldsValue ==
    \A c \in Conts :
        (last.op \in {"emplace", "make_emplaced"} /\ last.dst = c /\ Completed)
           => /\ Valid(c)
              /\ objs[Held(c)].type = last.type
              /\ objs[Held(c)].val = last.val
              /\ last.ctor = "Basic"

\* an emplace of a ChildA has replaced an inline Base
C10_Witness ==
    \E c \in Conts :
        /\ last.op = "emplace" /\ last.dst = c /\ last.type = "ChildA"
        /\ cont[c].inl # 0 /\ objs[cont[c].inl].dtor = 1 /\ ~cont[c].m_local
        /\ Valid(c) /\ objs[Held(c)].val = last.val

----------------------------------------------------------------------------
\* C11: in a copyable and moveable container, a value given as an rvalue
\* (construction or assignment) becomes the held object by T's move
\* constructor, a value given as an lvalue by T's copy constructor, and
\* make_emplaced / emplace build it by T's ordinary constructor, with no
\* copy or move; the held object has the value and the type given.
C11_ConstructorByValueCategory ==
    \A c \in Conts :
        (last.dst = c /\ Completed /\ copyable(c) /\ moveable(c) /\ last.op \in ValueOps)
           => /\ Valid(c)
              /\ objs[Held(c)].val = last.val /\ objs[Held(c)].type = last.type
              /\ last.op \in {"ctor_value_move", "assign_value_move"} => last.ctor = "Moved"
              /\ last.op \in {"ctor_value_copy", "assign_value_copy"} => last.ctor = "Copied"
              /\ last.op \in {"make_emplaced", "emplace"} => last.ctor = "Basic"

\* an rvalue ChildA was assigned over a copied value and went to the heap
C11_Witness ==
    \E c \in Conts :
        /\ last.op = "assign_value_move" /\ last.dst = c /\ last.ctor = "Moved"
        /\ last.branch = "heap" /\ Valid(c) /\ objs[Held(c)].type = "ChildA"
        /\ cont[c].inl # 0 /\ objs[cont[c].inl].dtor = 1

C13_LocalityBySize ==
    \A d \in Conts :
        (last.op \in CopyOps \cup MoveOps /\ last.dst = d /\ Completed /\ ub = "none")
           => /\ Valid(d)
              /\ IF SizeOf(objs[Held(d)].type) > small_buffer_size(d)
                 THEN ~cont[d].m_local /\ objs[Held(d)].heap
                 ELSE cont[d].m_local /\ ~objs[Held(d)].heap

\* C14: constructing or assigning a container from a container over the same
\* or a derived base, by copy or by move, leaves the destination holding an
\* object of the source's concrete type with the source's value, made by the
\* copy constructor (copy) or by the move constructor or pointer transfer
\* (move), and with a table of that type of its own.
C14_CrossContainerTransfer ==
    [][\A d \in Conts, s \in Conts :
          ( /\ last'.op \in CopyOps \cup MoveOps /\ last'.dst = d /\ last'.src = s
            /\ last'.branch # "fault" /\ Valid(s) )
          => /\ ValidIn(d, cont', objs')
             /\ objs'[HeldIn(d, cont', objs')].type = objs[Held(s)].type
             /\ objs'[HeldIn(d, cont', objs')].val = objs[Held(s)].val
             /\ cont'[d].table = objs[Held(s)].type
             /\ cont'[d].tbase = cont[s].tbase
             /\ last'.ctor \in (IF last'.op \in CopyOps \/ ~moveable(d) THEN {"Copied"}
                                ELSE IF last'.branch = "steal" THEN {"none"}
                                ELSE {"Moved"})]_vars

\* C15: emplace and every assignment operator destroy the held object
\* (destructor if inline, delete if on the heap) exactly once and before the
\* new object is constructed: the old object is not alive when the new one
\* is built, and the new object is another object.
ReplacingOps == {"emplace", "assign_value_copy", "assign_value_move",
                 "assign_copy", "assign_move"}

C15_DestroyBeforeConstruct ==
    [][\A c \in Conts :
          (last'.op \in ReplacingOps /\ last'.dst = c /\ last'.branch # "fault" /\ Valid(c))
          => LET old == Held(c) IN
             /\ objs'[old].dtor = 1
             /\ objs'[old].freed = (IF objs[old].heap THEN 1 ELSE 0)
             /\ ~last'.overlap
             /\ HeldIn(c, cont', objs') # old]_vars

\* a container assignment has replaced a heap-stored object by an inline one
\* (the only other container that was ever constructed is the source)
C15_Witness ==
    \E c \in Conts, old \in 1..Len(objs) :
        /\ last.op = "assign_copy" /\ last.dst = c /\ last.branch = "inline"
        /\ ~last.overlap /\ Valid(c) /\ Held(c) # old
        /\ objs[old].heap /\ objs[old].freed = 1 /\ objs[old].dtor = 1
        /\ Valid(last.src) /\ Len(objs) = 3
        /\ \A e \in Conts \ {c, last.src} : cont[e].st = "unborn"

C17_AbstractBaseDefault ==
    \A c \in Conts :
        (Attributes(c) = Attr.Default /\ IsAbstract(BaseT(c)))
           => /\ copyable(c) /\ moveable(c)
              /\ \A T \in TypeSet, v \in Vals :
                    (IsBaseOf(BaseT(c), T) /\ ~crashed /\ ub = "none" /\ Room)
                       => /\ Unborn(c) => /\ ENABLED ConstructCopyValue(c, T, v)
                                          /\ ENABLED ConstructMoveValue(c, T, v)
                          /\ Live(c) => /\ ENABLED AssignCopyValue(c, T, v)
                                        /\ ENABLED AssignMoveValue(c, T, v)

\* C18: a copyable and moveable container accepts copy and move assignment
\* from values and from containers; a copy-only container accepts copy
\* assignment and also move assignment (from rvalue values and rvalue
\* containers); a move-only container rejects copy assignment from values
\* and from containers and accepts move assignment from both; a rejected
\* operation is never executed.
C18_Availability ==
    \A c \in Conts :
        LET Ready == ~crashed /\ ub = "none" /\ Room /\ Live(c)
            Sources == {s \in Conts \ {c} : Usable(s) /\ IsBaseOf(BaseT(c), BaseT(s))}
            CopiedT == {T \in TypeSet : IsBaseOf(BaseT(c), T) /\ CopyConstructible(T)}
            MovedT == {T \in TypeSet : IsBaseOf(BaseT(c), T) /\ MoveConstructible(T)}
        IN  /\ (Ready /\ copyable(c))
                  => /\ \A T \in CopiedT, v \in Vals :
                           /\ ENABLED AssignCopyValue(c, T, v)
                           /\ ~moveable(c) => ENABLED AssignMoveValue(c, T, v)
                     /\ \A s \in Sources : ENABLED AssignCopy(c, s) /\ ENABLED AssignMove(c, s)
            /\ (Ready /\ moveable(c))
                  => /\ \A T \in MovedT, v \in Vals : ENABLED AssignMoveValue(c, T, v)
                     /\ \A s \in Sources : ENABLED AssignMove(c, s)
            /\ ~copyable(c)
                  => /\ \A T \in TypeSet, v \in Vals : ~ENABLED AssignCopyValue(c, T, v)
                     /\ \A s \in Conts : ~ENABLED AssignCopy(c, s)
                     /\ last.dst = c => last.op \notin {"assign_value_copy", "assign_copy"}

\* a copy-only container was move-assigned a container of its own type
C18_Witness ==
    \E d \in Conts, s \in Conts :
        /\ last.op = "assign_move" /\ last.dst = d /\ last.src = s /\ cfg[d] = cfg[s]
        /\ copyable(d) /\ ~moveable(d) /\ last.ctor = "Copied" /\ Valid(d)

C20_EffectiveBufferSize ==
    \A c \in Conts :
        LET n == Configured(c)
            B == BaseT(c)
        IN  /\ n # 0 => small_buffer_size(c) = n
            /\ n = 0 => /\ small_buffer_size(c) >= SizeOf(B) + PtrSize
                        /\ small_buffer_size(c) >= 4 * PtrSize
                        /\ small_buffer_size(c) \in {SizeOf(B) + PtrSize, 4 * PtrSize}
            /\ (n >= PtrSize /\ n < SizeOf(B)) => Instantiable(c)
            /\ cont[c].st # "unborn" => small_buffer_size(c) >= PtrSize
            /\ (n # 0 /\ n < PtrSize)
                  => /\ ~Instantiable(c)
                     /\ \A T \in TypeSet, v \in Vals :
                           /\ ~ENABLED MakeEmplaced(c, T, v)
                           /\ ~ENABLED ConstructCopyValue(c, T, v)
                           /\ ~ENABLED ConstructMoveValue(c, T, v)

\* dynamic_value<Base, Properties<a, 8>> exists and holds a Base, on the heap
C20_Witness ==
    /\ BaseT(1) = "Base" /\ Configured(1) = PtrSize /\ Configured(1) < SizeOf("Base")
    /\ last.op = "make_emplaced" /\ last.dst = 1 /\ last.type = "Base"
    /\ Valid(1) /\ ~cont[1].m_local /\ objs[Held(1)].heap

----------------------------------------------------------------------------
\* the type that an operation on d is to establish there
IncomingType(d) ==
    IF last'.op \in ValueOps THEN last'.type ELSE cont[last'.src].table

\* the operation on d has to allocate: the type does not fit d's buffer,
\* and it is not a move of a heap-stored source, which allocates nothing
NeedsAllocation(d) ==
    /\ last'.op \in ValueOps \cup CopyOps \cup MoveOps
    /\ IncomingType(d) # "none"
    /\ SizeOf(IncomingType(d)) > small_buffer_size(d)
    /\ last'.op \in ValueOps
          \/ (IF last'.op \in CopyOps \/ ~moveable(d)
              THEN CopyConstructible(cont[last'.src].tbase)
              ELSE MoveConstructible(cont[last'.src].tbase) /\ cont[last'.src].m_local)

\* C25: when an operation has to allocate (T larger than the buffer) and
\* the allocation fails, the failure leaves the operation to its caller: no
\* object is constructed, neither on the heap nor inline, and the container
\* is not made to hold anything inline; std::bad_alloc comes from nowhere
\* but a failed allocation.
C25_AllocationFailurePropagates ==
    [][\A d \in Conts :
          (last'.dst = d /\ last'.branch # "fault")
          => /\ (nomem /\ NeedsAllocation(d))
                   => /\ last'.branch = "bad_alloc"
                      /\ Len(objs') = Len(objs)
                      /\ ~cont'[d].m_local
                      /\ cont'[d].slot = cont[d].slot
                      /\ nomem'
             /\ last'.branch = "bad_alloc" => nomem /\ NeedsAllocation(d)]_vars

\* a copy assignment that had to spill a ChildA has thrown, after the
\* destination's object was destroyed
C25_Witness ==
    \E d \in Conts, s \in Conts :
        /\ last.op = "assign_copy" /\ last.dst = d /\ last.src = s
        /\ last.branch = "bad_alloc" /\ nomem /\ Valid(s) /\ cont[s].m_local
        /\ cont[s].table = "ChildA" /\ ~cont[d].m_local /\ Live(d)

----------------------------------------------------------------------------
\* C21: the operations-table buffer is zero-sized exactly when the container
\* is neither copyable nor moveable; and when BaseT is neither copy- nor
\* move-constructible, the buffer is zero-sized, no table is ever placed in
\* it, and no container operation reaches a table's clone or move with the
\* container as destination or as source.
C21_TableBufferUnused ==
    \A c \in Conts :
        /\ op_table_size(c) = 0 <=> (~copyable(c) /\ ~moveable(c))
        /\ (~CopyConstructible(BaseT(c)) /\ ~MoveConstructible(BaseT(c)))
              => /\ op_table_size(c) = 0
                 /\ cont[c].table = "none"
                 /\ last.op \in CopyOps \cup MoveOps => last.dst # c /\ last.src # c

\* C22: whenever a container operation calls the stored table's clone (the
\* destination is copyable) or move (it is moveable) on a source that holds
\* a valid object, the table's gate for that operation is open and the call
\* establishes the destination's payload, m_local and table; the variant
\* that does nothing is never the one executed.
C22_GatesAgree ==
    [][\A d \in Conts, s \in Conts :
          ( /\ last'.op \in CopyOps \cup MoveOps /\ last'.dst = d /\ last'.src = s
            /\ last'.branch \notin {"fault", "bad_alloc"} /\ Valid(s) )
          => /\ IF last'.op \in CopyOps \/ ~moveable(d)
                THEN CopyConstructible(cont[s].tbase)
                ELSE MoveConstructible(cont[s].tbase)
             /\ last'.branch \in {"inline", "heap", "steal"}
             /\ cont'[d].table = cont[s].table
             /\ cont'[d].m_local <=> (SizeOf(cont[s].table) <= small_buffer_size(d))
             /\ HeldIn(d, cont', objs') # 0]_vars

----------------------------------------------------------------------------
\* an invocation that returned has run the callable that the unique_function
\* holds
InvokeRunsHeld ==
    \A c \in Conts :
        (last.op = "invoke" /\ last.dst = c /\ Completed)
           => /\ ub = "none" /\ Valid(c)
              /\ last.type = objs[Held(c)].type /\ last.val = objs[Held(c)].val

\* C23: after a unique_function f2 is move-constructed from a
\* unique_function f that holds a callable, f2 holds a valid callable of the
\* type and with the state of the one that was stored in f, and an
\* invocation of a unique_function runs the callable it holds.
MoveConstructedHoldsCallable ==
    \A f2 \in Conts, f \in Conts :
        ( /\ last'.op = "ctor_move" /\ last'.dst = f2 /\ last'.src = f
          /\ last'.branch # "fault" /\ Valid(f) )
        => /\ ValidIn(f2, cont', objs')
           /\ objs'[HeldIn(f2, cont', objs')].type = objs[Held(f)].type
           /\ objs'[HeldIn(f2, cont', objs')].val = objs[Held(f)].val

C23_MovedFunctionInvokes == [][MoveConstructedHoldsCallable]_vars /\ []InvokeRunsHeld

\* C24: assigning a callable g to a unique_function replaces the stored
\* callable: a unique_function that has not been moved from holds a callable
\* before the assignment, the callable held is destroyed exactly once by it,
\* and afterwards the unique_function holds g, built in place and another
\* object than the old one.
C24_AssignCallableReplaces ==
    [][\A f \in Conts :
          (last'.op = "emplace" /\ last'.dst = f /\ last'.branch # "fault")
          => /\ ~cont[f].moved => Valid(f)
             /\ Valid(f) => /\ objs'[Held(f)].dtor = 1
                            /\ objs'[Held(f)].freed = (IF objs[Held(f)].heap THEN 1 ELSE 0)
                            /\ HeldIn(f, cont', objs') # Held(f)
             /\ \A i \in 1..Len(objs) : objs'[i].dtor <= 1 /\ objs'[i].freed <= 1
             /\ ub' = "none"
             /\ ValidIn(f, cont', objs')
             /\ objs'[HeldIn(f, cont', objs')].type = last'.type
             /\ objs'[HeldIn(f, cont', objs')].val = last'.val
             /\ last'.ctor = "Basic"]_vars

----------------------------------------------------------------------------
\* C26: container assignment makes no aliasing check.  When the source is
\* the destination itself and holds a valid object, that object is destroyed
\* first and then read as the source of the clone or move: the step reads a
\* destroyed object.  When source and destination are distinct, the object
\* the source refers to is not a destroyed one and the step does not
\* destroy it; from a source that holds a valid object nothing invalid is
\* read.
C26_NoAliasingCheck ==
    [][\A d \in Conts, s \in Conts :
          (last'.op \in {"assign_copy", "assign_move"} /\ last'.dst = d /\ last'.src = s)
          => LET x == Held(s) IN
             IF s = d
             THEN Valid(s) => /\ ~last'.overlap
                              /\ ub' = "read"
                              /\ last'.branch # "fault" => objs'[x].dtor = 1
             ELSE /\ x # 0 => /\ Alive(x, objs)
                              /\ last'.branch # "fault" => objs'[x].dtor = 0
                  /\ Valid(s) => ub' # "read"]_vars

\* a container holding a ChildA on the heap was copy-assigned to itself: the
\* copy constructor read the deleted object and the program went on
C26_Witness ==
    \E c \in Conts :
        /\ last.op = "assign_copy" /\ last.dst = c /\ last.src = c
        /\ ub = "read" /\ ~crashed /\ last.branch = "heap"
        /\ \E x \in 1..Len(objs) : objs[x].heap /\ objs[x].freed = 1 /\ objs[x].dtor = 1

----------------------------------------------------------------------------
\* C27: the table's move selects its branch by (T fits the destination's
\* buffer, the source is local): if T fits, T is move-constructed inline in
\* the destination and m_local becomes true, wherever the source held it; if
\* T does not fit and the source is local, a new T is move-constructed on
\* the heap, its pointer stored in the destination, m_local false; if T does
\* not fit and the source is heap-stored, no object is constructed and the
\* source's pointer is stored in the destination, m_local false.  In all
\* three a table for T is constructed in the destination.
C27_MoveBranches ==
    [][\A d \in Conts, s \in Conts :
          ( /\ last'.op \in MoveOps /\ last'.dst = d /\ last'.src = s
            /\ last'.branch \notin {"fault", "bad_alloc"}
            /\ moveable(d) /\ Valid(s) /\ MoveConstructible(cont[s].tbase) )
          => LET T == cont[s].table
                 fits == SizeOf(T) <= small_buffer_size(d)
                 new == Len(objs) + 1
             IN  /\ fits
                       => /\ last'.branch = "inline" /\ last'.ctor = "Moved"
                          /\ cont'[d].m_local /\ cont'[d].inl = new
                          /\ Len(objs') = new
                          /\ objs'[new].type = T /\ ~objs'[new].heap
                 /\ (~fits /\ cont[s].m_local)
                       => /\ last'.branch = "heap" /\ last'.ctor = "Moved"
                          /\ ~cont'[d].m_local /\ cont'[d].slot = new
                          /\ Len(objs') = new
                          /\ objs'[new].type = T /\ objs'[new].heap
                 /\ (~fits /\ ~cont[s].m_local)
                       => /\ last'.branch = "steal" /\ last'.ctor = "none"
                          /\ ~cont'[d].m_local /\ cont'[d].slot = cont[s].slot
                          /\ Len(objs') = Len(objs)
                 /\ cont'[d].table = T /\ cont'[d].tbase = cont[s].tbase]_vars

\* C28: in a move that is not a pointer-steal the source keeps its m_local
\* flag, its buffer and its object, which is moved from but alive and is not
\* the destination's object; the object of a moved-from container is
\* untouched by every step but the source's own destructor, emplace or
\* assignment, which destroys (and frees) it exactly once.
NonStealMoveKeepsSource ==
    \A d \in Conts, s \in Conts :
        ( /\ last'.op \in MoveOps /\ last'.dst = d /\ last'.src = s
          /\ last'.branch \in {"inline", "heap"} /\ moveable(d) /\ Valid(s) )
        => /\ cont'[s].m_local = cont[s].m_local
           /\ cont'[s].slot = cont[s].slot /\ cont'[s].inl = cont[s].inl
           /\ cont'[s].moved
           /\ ValidIn(s, cont', objs') /\ HeldIn(s, cont', objs') = Held(s)
           /\ objs'[Held(s)].dtor = 0 /\ objs'[Held(s)].freed = 0
           /\ HeldIn(d, cont', objs') # Held(s)

MovedFromOwnsObject ==
    \A s \in Conts :
        (cont[s].moved /\ Valid(s))
        => LET x == Held(s) IN
           IF /\ last'.dst = s /\ last'.branch # "fault"
              /\ last'.op \in ReplacingOps \cup {"dtor"}
           THEN /\ objs'[x].dtor = 1
                /\ objs'[x].freed = (IF objs[x].heap THEN 1 ELSE 0)
           ELSE objs'[x] = objs[x] /\ cont'[s] = cont[s]

C28_SourceKeepsMovedFrom == [][NonStealMoveKeepsSource /\ MovedFromOwnsObject]_vars

\* a container whose heap-stored ChildA was moved from (into a container
\* that holds it inline) has been destroyed: it freed its own object, and
\* the destination still holds the other one
C28_Witness ==
    \E d \in Conts, x \in 1..Len(objs) :
        /\ last.op = "dtor" /\ last.dst # d /\ cont[last.dst].st = "dead"
        /\ Valid(d) /\ cont[d].m_local /\ objs[Held(d)].type = "ChildA"
        /\ Held(d) # x /\ objs[x].type = "none" /\ objs[x].heap
        /\ objs[x].dtor = 1 /\ objs[x].freed = 1
        /\ Len(objs) = 2 /\ ub = "none"

\* C29: a clone (copy construction or copy assignment from a container)
\* leaves the source as it was: its buffer, m_local, table and flags, the
\* address its object is at and the object itself.
C29_CloneLeavesSource ==
    [][\A d \in Conts, s \in Conts :
          (last'.op \in CopyOps /\ last'.dst = d /\ last'.src = s)
          => /\ cont'[s] = cont[s]
             /\ get(s, cont') = get(s, cont)
             /\ Held(s) # 0 => /\ HeldIn(s, cont', objs') = Held(s)
                               /\ objs'[Held(s)] = objs[Held(s)]
             /\ Valid(s) => ValidIn(s, cont', objs')]_vars

\* a container was copy-assigned a heap-stored ChildA and keeps it inline;
\* the source still holds its own on the heap
C29_Witness ==
    \E d \in Conts, s \in Conts :
        /\ last.op = "assign_copy" /\ last.dst = d /\ last.src = s /\ last.branch = "inline"
        /\ Valid(s) /\ ~cont[s].m_local /\ objs[Held(s)].type = "ChildA"
        /\ Valid(d) /\ cont[d].m_local /\ ~cont[s].moved

\* C30: after an emplace or an assignment (of a value, or of another
\* container that holds a valid object) returns on a container that held a
\* valid object or was moved from, the container holds exactly one valid
\* object and m_local tells where it is: true and the object is in the
\* buffer, false and the pointer slot refers to a live allocation.
C30_HoldingPreserved ==
    [][\A c \in Conts :
          ( /\ last'.op \in ReplacingOps /\ last'.dst = c
            /\ last'.branch \notin {"fault", "bad_alloc"}
            /\ Valid(c) \/ cont[c].moved
            /\ last'.op \in {"assign_copy", "assign_move"}
                  => last'.src # c /\ Valid(last'.src) )
          => /\ ValidIn(c, cont', objs')
             /\ ub' = "none"
             /\ cont'[c].m_local <=> ~objs'[HeldIn(c, cont', objs')].heap]_vars

----------------------------------------------------------------------------
\* C31: when the construction of the new object has failed in an emplace or
\* an assignment (the allocation threw, after the old object was destroyed),
\* the next destruction of the container, or emplace or assignment into it,
\* does not destroy or free the old object again: no destructor runs twice,
\* no allocation is freed twice, and delete is applied to nothing but a
\* live allocation or a null pointer.
C31_NoSecondDestroyAfterFailure ==
    [][\A c \in Conts :
          ( /\ last.op \in ReplacingOps /\ last.dst = c /\ last.branch = "bad_alloc"
            /\ last'.dst = c /\ last'.op \in ReplacingOps \cup {"dtor"} )
          => /\ ub' # "delete"
             /\ ~crashed'
             /\ \A i \in 1..Len(objs) : objs'[i].dtor <= 1 /\ objs'[i].freed <= 1]_vars

====
